---- MODULE Spec2Model ----
(***************************************************************************)
(* SABR Monte-Carlo pricers of src/HW3/option_models/sabr.py.              *)
(*                                                                         *)
(* One pricer instance (ModelBsmMC, ModelNormalMC, ModelBsmCondMC or       *)
(* ModelNormalCondMC) is constructed, then its methods are called in any   *)
(* order.  Every method is one action; the outcome of the last call (the   *)
(* value returned or the exception raised, together with the locals of the *)
(* method at that point) is kept in ret.                                   *)
(*                                                                         *)
(* Numbers.  A number is a pair <<n, d>>.  d > 0 is the rational n/d in    *)
(* lowest terms; d = 0 is one of the IEEE specials nan = <<0,0>>,          *)
(* inf = <<1,0>>, -inf = <<-1,0>>.  +, -, *, / are exact.  np.sqrt and     *)
(* np.exp are irrational and are evaluated to a finite working precision:  *)
(* their result is rounded down to a multiple of 1/Prec.                   *)
(***************************************************************************)
EXTENDS Integers, Sequences, FiniteSets, TLC

VARIABLES
    self,   \* the pricer instance: its class and its attributes
    args,   \* the constructor call that built it (which arguments were passed)
    rng,    \* state of the process-wide generator behind np.random
    ret     \* outcome of the last method call

vars == <<self, args, rng, ret>>

----------------------------------------------------------------------------
(* Bounds of the model *)

\* working precision of Sqrt and Exp: results are multiples of 1/Prec
Prec == 16
\* n_path ranges over 1..MaxPath
MaxPath == 2
\* texp ranges up to MaxTq quarters
MaxTq == 3
\* the generator has the states 0..RngMod-1
RngMod == 3
\* paths handed to intvar_normalized directly have up to MaxRows rows
MaxRows == 3

----------------------------------------------------------------------------
(* Exact arithmetic on numbers *)

Abs(k) == IF k < 0 THEN -k ELSE k

Sgn(k) == IF k < 0 THEN -1 ELSE IF k > 0 THEN 1 ELSE 0

RECURSIVE Gcd(_, _)
Gcd(a, b) == IF b = 0 THEN a ELSE Gcd(b, a % b)

\* the number n/d, d > 0, in lowest terms
Q(n, d) == LET g == Gcd(Abs(n), d) IN <<n \div g, d \div g>>

I(k) == <<k, 1>>

NaN == <<0, 0>>

Finite(x) == x[2] > 0

RNeg(x) == <<-x[1], x[2]>>

RAdd(x, y) ==
    IF Finite(x) /\ Finite(y)
    THEN LET g == Gcd(x[2], y[2])
         IN  Q(x[1] * (y[2] \div g) + y[1] * (x[2] \div g), (x[2] \div g) * y[2])
    ELSE IF x = NaN \/ y = NaN THEN NaN
    ELSE IF Finite(x) THEN y
    ELSE IF Finite(y) THEN x
    ELSE IF x = y THEN x ELSE NaN

RSub(x, y) == RAdd(x, RNeg(y))

RMul(x, y) ==
    IF Finite(x) /\ Finite(y)
    THEN LET g == Gcd(Abs(x[1]), y[2])
             h == Gcd(Abs(y[1]), x[2])
         IN  Q((x[1] \div g) * (y[1] \div h), (x[2] \div h) * (y[2] \div g))
    ELSE <<Sgn(x[1]) * Sgn(y[1]), 0>>

\* x / y.  For y = 0 this is what NumPy gives (inf or nan and a RuntimeWarning);
\* Python's own float division raises instead, which the callers test for
RDiv(x, y) ==
    IF Finite(x) /\ Finite(y)
    THEN IF y[1] = 0 THEN <<Sgn(x[1]), 0>>
         ELSE Q(Sgn(y[1]) * x[1] * y[2], Abs(y[1]) * x[2])
    ELSE IF Finite(y) THEN <<Sgn(x[1]) * (IF y[1] < 0 THEN -1 ELSE 1), 0>>
    ELSE IF Finite(x) THEN (IF y = NaN THEN NaN ELSE I(0))
    ELSE NaN

\* x[1]/x[2] - y[1]/y[2] over the least common denominator
Diff(x, y) == LET g == Gcd(x[2], y[2]) IN x[1] * (y[2] \div g) - y[1] * (x[2] \div g)

RLe(x, y) == Finite(x) /\ Finite(y) /\ Diff(x, y) <= 0

RLt(x, y) == Finite(x) /\ Finite(y) /\ Diff(x, y) < 0

RMax(x, y) == IF x = NaN THEN y ELSE IF y = NaN THEN x ELSE IF RLe(x, y) THEN y ELSE x

Ceil(x) == -((-x[1]) \div x[2])

\* x rounded down to a multiple of 1/Prec
Round(x) == Q((x[1] * Prec) \div x[2], Prec)

RECURSIVE ISqrtFrom(_, _)
ISqrtFrom(k, s) == IF (s + 1) * (s + 1) > k THEN s ELSE ISqrtFrom(k, s + 1)

\* np.sqrt
Sqrt(x) ==
    IF ~Finite(x) THEN (IF x[1] > 0 THEN x ELSE NaN)
    ELSE IF x[1] < 0 THEN NaN
    ELSE Q(ISqrtFrom((x[1] * Prec * Prec) \div x[2], 0), Prec)

\* 1 + x + x^2/2 + x^3/6 for x = a/Prec >= 0
ExpSeries(a) ==
    Q(6 * Prec * Prec * Prec + 6 * a * Prec * Prec + 3 * a * a * Prec + a * a * a,
      6 * Prec * Prec * Prec)

\* np.exp
Exp(x) ==
    IF ~Finite(x) THEN (IF x[1] < 0 THEN I(0) ELSE x)
    ELSE LET a == (x[1] * Prec) \div x[2]
         IN  IF a >= 0 THEN Round(ExpSeries(a))
             ELSE Round(RDiv(I(1), ExpSeries(-a)))

----------------------------------------------------------------------------
(* Arrays: a vector is a sequence of numbers, a matrix a sequence of rows *)

RECURSIVE SeqOf(_, _)
\* the array <<F(1), ..., F(n)>>, empty for n <= 0
SeqOf(F(_), n) == IF n <= 0 THEN <<>> ELSE Append(SeqOf(F, n - 1), F(n))

RECURSIVE SumTo(_, _)
\* f[1] + ... + f[k]
SumTo(f, k) == IF k = 0 THEN I(0) ELSE RAdd(SumTo(f, k - 1), f[k])

Sum(f) == SumTo(f, Len(f))

\* np.mean over a vector
Mean(f) == RDiv(Sum(f), I(Len(f)))

\* np.cumsum(M, axis=0)
CumSum(M, N) ==
    SeqOf(LAMBDA t : SeqOf(LAMBDA i : SumTo(SeqOf(LAMBDA s : M[s][i], t), t), N), Len(M))

\* np.insert(M, 0, np.ones(N), axis=0)
InsertOnes(M, N) == <<SeqOf(LAMBDA i : I(1), N)>> \o M

----------------------------------------------------------------------------
(* np.random: the process-wide generator *)

\* the state after k draws: the generator steps once per variate
RngSkip(x, k) == (x + k) % RngMod

\* the variate a state gives
NormalOf(x) == I((x % 3) - 1)

\* np.random.standard_normal((n, N)) from state x, n >= 0: row-major draws
StandardNormal(x, n, N) ==
    SeqOf(LAMBDA t : SeqOf(LAMBDA i : NormalOf(RngSkip(x, (t - 1) * N + i)), N), n)

----------------------------------------------------------------------------
(* A method's locals: With(e, LAMBDA v : body) is body with v bound to e *)

With(val, Body(_)) == Body(val)

\* what a call leaves behind: how it ended, the value returned, the generator
\* state, the number of variates drawn, and the locals assigned by then
Outcome(status, value, x, draws, loc) ==
    [status |-> status, value |-> value, rng |-> x, draws |-> draws, loc |-> loc]

----------------------------------------------------------------------------
(* ModelABC.sigma_path *)

\* n_dt = int(np.ceil(texp / self.dt))
NDt(m, texp) == Ceil(RDiv(texp, m.dt))

\* tobs = np.arange(1, n_dt + 1) / n_dt * texp  (empty when n_dt <= 0)
Tobs(n_dt, texp) == SeqOf(LAMBDA k : RMul(RDiv(I(k), I(n_dt)), texp), n_dt)

\* variant: the nominal step self.dt in place of texp / n_dt
StepNominal(m, texp, n_dt) == m.dt

\* dt = texp / n_dt, n_dt > 0
StepOf(m, texp, n_dt) == RDiv(texp, I(n_dt))

\* Z_t = np.cumsum(Z * np.sqrt(dt), axis=0)
ScaledCumSum(Z, dt, N) ==
    CumSum(SeqOf(LAMBDA t : SeqOf(LAMBDA i : RMul(Z[t][i], Sqrt(dt)), N), Len(Z)), N)

\* np.exp(vov * (Z_t - vov/2 * tobs[:, None]))
ExpLogSigma(vov, Z_t, tobs, N) ==
    SeqOf(LAMBDA t :
        SeqOf(LAMBDA i :
            Exp(RMul(vov, RSub(Z_t[t][i], RMul(RDiv(vov, I(2)), tobs[t])))), N), Len(Z_t))

\* the whole method, called with the generator in state x
SigmaPathFn(m, x, texp) ==
    With(NDt(m, texp), LAMBDA n_dt :
    With(Tobs(n_dt, texp), LAMBDA tobs :
        IF n_dt = 0
        THEN \* dt = texp / n_dt
             Outcome("ZeroDivisionError", <<>>, x, 0, [n_dt |-> n_dt, tobs |-> tobs])
        ELSE IF n_dt < 0
        THEN \* tobs[-1] of an empty array
             Outcome("IndexError", <<>>, x, 0, [n_dt |-> n_dt, tobs |-> tobs])
        ELSE IF texp # tobs[n_dt]
        THEN \* assert texp == tobs[-1]
             Outcome("AssertionError", <<>>, x, 0, [n_dt |-> n_dt, tobs |-> tobs])
        ELSE
    With(StepOf(m, texp, n_dt), LAMBDA dt :
    With(StandardNormal(x, n_dt, m.n_path), LAMBDA Z :
    With(ScaledCumSum(Z, dt, m.n_path), LAMBDA Z_t :
        Outcome("return",
                InsertOnes(ExpLogSigma(m.vov, Z_t, tobs, m.n_path), m.n_path),
                RngSkip(x, n_dt * m.n_path),
                n_dt * m.n_path,
                [n_dt |-> n_dt, tobs |-> tobs, dt |-> dt, Z |-> Z, Z_t |-> Z_t]))))))

----------------------------------------------------------------------------
(* ModelABC.intvar_normalized *)

\* variant: the end weights left at 1 (a rectangle rule)
EndWeightsOne(rows) == SeqOf(LAMBDA t : I(1), rows)

\* weight = np.ones(rows); weight[[0, -1]] = 0.5
RawWeights(rows) == SeqOf(LAMBDA t : IF t = 1 \/ t = rows THEN Q(1, 2) ELSE I(1), rows)

\* weight /= weight.sum()
Weights(rows) ==
    With(RawWeights(rows), LAMBDA w :
    With(Sum(w), LAMBDA total : SeqOf(LAMBDA t : RDiv(w[t], total), rows)))

\* variant: the squares written into the argument (sigma_path **= 2)
PowInPlace(p) ==
    SeqOf(LAMBDA t : SeqOf(LAMBDA i : RMul(p[t][i], p[t][i]), Len(p[t])), Len(p))

\* sigma_path ** 2 builds a new array: the argument keeps its values
ArgAfterPow(p) == p

\* intvar = np.sum(weight[:, None] * sigma_path ** 2, axis=0)
WeightedSquares(weight, p) ==
    SeqOf(LAMBDA i :
        Sum(SeqOf(LAMBDA t : RMul(weight[t], RMul(p[t][i], p[t][i])), Len(p))),
        Len(p[1]))

\* the whole method on path p (rows >= 1); arg is the caller's array afterwards
IntvarNormalizedFn(p) ==
    With(Weights(Len(p)), LAMBDA weight :
        [status |-> "return", value |-> WeightedSquares(weight, p),
         arg |-> ArgAfterPow(p), loc |-> [weight |-> weight]])

----------------------------------------------------------------------------
(* np.log, to the working precision: the largest a/Prec with exp(a/Prec) <= x *)

RECURSIVE LogUp(_, _)
LogUp(x, a) == IF RLe(Exp(Q(a + 1, Prec)), x) THEN LogUp(x, a + 1) ELSE a

RECURSIVE LogDown(_, _)
LogDown(x, a) == IF RLe(Exp(Q(a, Prec)), x) THEN a ELSE LogDown(x, a - 1)

\* np.log for x > 0
Log(x) == IF RLe(I(1), x) THEN Q(LogUp(x, 0), Prec) ELSE Q(LogDown(x, -1), Prec)

----------------------------------------------------------------------------
(* ModelBsmMC.price and ModelNormalMC.price: direct simulation *)

\* W = self.rho * Z + np.sqrt(1 - self.rho**2) * W
Correlate(rho, Z, W, N) ==
    With(Sqrt(RSub(I(1), RMul(rho, rho))), LAMBDA c :
        SeqOf(LAMBDA t :
            SeqOf(LAMBDA i : RAdd(RMul(rho, Z[t][i]), RMul(c, W[t][i])), N), Len(Z)))

\* the step in Z_t = np.cumsum(Z * np.sqrt(self.dt), axis=0)
InlineStep(m, texp, n_dt) == m.dt

\* sigma_t = self.sigma * np.insert(np.exp(log_sigma), 0, ones, axis=0)
ScaleBy(sigma, path, N) ==
    SeqOf(LAMBDA t : SeqOf(LAMBDA i : RMul(sigma, path[t][i]), N), Len(path))

\* Z_t, log_sigma and sigma_t of the direct pricers
InlineSigma(m, Z, tobs, texp, n_dt) ==
    With(ScaledCumSum(Z, InlineStep(m, texp, n_dt), m.n_path), LAMBDA Z_t :
        ScaleBy(m.sigma, InsertOnes(ExpLogSigma(m.vov, Z_t, tobs, m.n_path), m.n_path),
                m.n_path))

\* the loop of ModelBsmMC.price over t for trajectory i, then np.exp
TerminalBsm(m, spot, sigma_t, W, n_dt) ==
    With(Log(spot), LAMBDA log_spot :
    With(Sqrt(m.dt), LAMBDA sqrt_dt :
        SeqOf(LAMBDA i :
            Exp(RAdd(log_spot,
                     Sum(SeqOf(LAMBDA t :
                            RSub(RMul(RMul(sigma_t[t][i], W[t][i]), sqrt_dt),
                                 RMul(RMul(Q(1, 2), RMul(sigma_t[t][i], sigma_t[t][i])),
                                      m.dt)), n_dt)))), m.n_path)))

\* the loop of ModelNormalMC.price over t for trajectory k
TerminalNormal(m, spot, sigma_t, W, n_dt) ==
    With(Sqrt(m.dt), LAMBDA sqrt_dt :
        SeqOf(LAMBDA i :
            RAdd(spot,
                 Sum(SeqOf(LAMBDA t : RMul(RMul(sigma_t[t][i], W[t][i]), sqrt_dt), n_dt))),
            m.n_path))

\* variant: the payoff left undiscounted
NoDiscount(m, texp) == I(1)

\* df = np.exp(-self.intr * texp)
Discount(m, texp) == Exp(RMul(RNeg(m.intr), texp))

\* np.fmax(cp * (S - strike), 0.0)
Payoff(cp, S, K) == RMax(RMul(I(cp), RSub(S, K)), I(0))

\* p = df * np.mean(np.fmax(cp*(S_T - strike[:, None]), 0.0), axis=1)
DiscountedPayoff(df, cp, S_T, strike) ==
    SeqOf(LAMBDA k :
        RMul(df, Mean(SeqOf(LAMBDA i : Payoff(cp, S_T[i], strike[k]), Len(S_T)))),
        Len(strike))

\* either direct pricer; normal = TRUE for ModelNormalMC.price
DirectPriceFn(m, x, normal, strike, spot, texp, cp) ==
    With(NDt(m, texp), LAMBDA n_dt :
    With(Tobs(n_dt, texp), LAMBDA tobs :
        IF n_dt < 0
        THEN \* np.random.standard_normal((n_dt, n_path)): negative dimension
             Outcome("ValueError: negative dimensions", <<>>, x, 0,
                     [n_dt |-> n_dt, tobs |-> tobs])
        ELSE
    With(StandardNormal(RngSkip(x, n_dt * m.n_path), n_dt, m.n_path), LAMBDA Z :
    With(Correlate(m.rho, Z, StandardNormal(x, n_dt, m.n_path), m.n_path), LAMBDA W :
    With(InlineSigma(m, Z, tobs, texp, n_dt), LAMBDA sigma_t :
    With(IF normal THEN TerminalNormal(m, spot, sigma_t, W, n_dt)
                   ELSE TerminalBsm(m, spot, sigma_t, W, n_dt), LAMBDA S_T :
    With(Discount(m, texp), LAMBDA df :
        Outcome("return",
                DiscountedPayoff(df, cp, S_T, strike),
                RngSkip(x, 2 * n_dt * m.n_path),
                2 * n_dt * m.n_path,
                [n_dt |-> n_dt, tobs |-> tobs, Z |-> Z, W |-> W,
                 sigma_t |-> sigma_t, S_T |-> S_T, df |-> df]))))))))

----------------------------------------------------------------------------
(* ModelABC.base_model and the pyfeng models it builds *)

\* the pyfeng models base_model() can return
BaseKinds == {"Norm", "Bsm"}

\* which pyfeng class base_model() picks, or the exception it raises
BaseModelKind(m) ==
    IF m.beta = I(0) THEN "Norm"
    ELSE IF m.beta = I(1) THEN "Bsm"
    ELSE "ValueError: 0<beta<1 not supported"

\* pf.Norm(sigma, intr).price / pf.Bsm(sigma, intr).price averaged over the
\* trajectories: closed forms of the external library, kept as terms
MeanBasePrice(kind, m, vol, strike, spot_equiv, texp, cp) ==
    SeqOf(LAMBDA k :
        [mean_of |-> kind, sigma |-> vol, intr |-> m.intr, strike |-> strike[k],
         spot |-> spot_equiv, texp |-> texp, cp |-> cp], Len(strike))

\* pf.Norm(sigma, intr).impvol / pf.Bsm(sigma, intr).impvol, kept as terms
BaseImpvol(kind, m, price, strike, spot, texp) ==
    SeqOf(LAMBDA k :
        [impvol_of |-> kind, sigma |-> m.sigma, intr |-> m.intr, price |-> price[k],
         strike |-> strike[k], spot |-> spot, texp |-> texp, cp |-> 1], Len(strike))

----------------------------------------------------------------------------
(* ModelBsmCondMC.price and ModelNormalCondMC.price: conditional simulation *)

\* vol = self.sigma * np.sqrt((1 - self.rho**2) * I_t)
EffectiveVol(m, I_t) ==
    SeqOf(LAMBDA i : RMul(m.sigma, Sqrt(RMul(RSub(I(1), RMul(m.rho, m.rho)), I_t[i]))),
          Len(I_t))

\* ModelBsmCondMC: sigma_t = self.sigma * vol_path[-1, :] and
\* spot * np.exp(rho / vov * (sigma_t - sigma) - rho**2 * sigma**2 * texp/2 * I_t)
SpotEquivBsm(m, spot, texp, vol_path, I_t) ==
    SeqOf(LAMBDA i :
        RMul(spot,
             Exp(RSub(RMul(RDiv(m.rho, m.vov),
                           RSub(RMul(m.sigma, vol_path[Len(vol_path)][i]), m.sigma)),
                      RMul(RDiv(RMul(RMul(RMul(m.rho, m.rho), RMul(m.sigma, m.sigma)),
                                     texp), I(2)),
                           I_t[i])))), Len(I_t))

\* ModelNormalCondMC: sigma_t = vol_path[-1, :], sigma_0 = vol_path[0, :] and
\* spot + rho / vov * (sigma_t - sigma_0)
SpotEquivNormal(m, spot, texp, vol_path, I_t) ==
    SeqOf(LAMBDA i :
        RAdd(spot, RMul(RDiv(m.rho, m.vov),
                        RSub(vol_path[Len(vol_path)][i], vol_path[1][i]))), Len(I_t))

\* either conditional pricer; normal = TRUE for ModelNormalCondMC.price
CondPriceFn(m, x, normal, strike, spot, texp, cp) ==
    With(SigmaPathFn(m, x, texp), LAMBDA sp :
        IF sp.status # "return"
        THEN Outcome(sp.status, <<>>, sp.rng, sp.draws, [n_dt |-> sp.loc.n_dt])
        ELSE
    With(sp.value, LAMBDA vol_path :
    With(IntvarNormalizedFn(vol_path).value, LAMBDA I_t :
    With(EffectiveVol(m, I_t), LAMBDA vol :
        IF m.vov = I(0) /\ ~m.np_params
        THEN \* self.rho / self.vov on Python numbers
             Outcome("ZeroDivisionError", <<>>, sp.rng, sp.draws,
                     [n_dt |-> sp.loc.n_dt, vol_path |-> vol_path, I_t |-> I_t,
                      vol |-> vol])
        ELSE
    With(IF normal THEN SpotEquivNormal(m, spot, texp, vol_path, I_t)
                   ELSE SpotEquivBsm(m, spot, texp, vol_path, I_t), LAMBDA spot_equiv :
    With(BaseModelKind(m), LAMBDA kind :
    With([n_dt |-> sp.loc.n_dt, vol_path |-> vol_path, I_t |-> I_t, vol |-> vol,
          spot_equiv |-> spot_equiv, base |-> kind], LAMBDA loc :
        IF kind \notin BaseKinds
        THEN Outcome(kind, <<>>, sp.rng, sp.draws, loc)
        ELSE Outcome("return",
                     MeanBasePrice(kind, m, vol, strike, spot_equiv, texp, cp),
                     sp.rng, sp.draws, loc))))))))

----------------------------------------------------------------------------
(* Dispatch of self.price on the class, and ModelABC.vol_smile *)

Classes == {"ModelBsmMC", "ModelNormalMC", "ModelBsmCondMC", "ModelNormalCondMC"}

NormalClasses == {"ModelNormalMC", "ModelNormalCondMC"}

CondClasses == {"ModelBsmCondMC", "ModelNormalCondMC"}

\* self.price: the override of the instance's class
PriceFn(m, x, strike, spot, texp, cp) ==
    IF m.cls \in CondClasses
    THEN CondPriceFn(m, x, m.cls \in NormalClasses, strike, spot, texp, cp)
    ELSE DirectPriceFn(m, x, m.cls \in NormalClasses, strike, spot, texp, cp)

\* price = self.price(strike, spot, texp, cp=1)
\* iv = self.base_model().impvol(price, strike, spot, texp, cp=1)
VolSmileFn(m, x, strike, spot, texp) ==
    With(PriceFn(m, x, strike, spot, texp, 1), LAMBDA pr :
    With(BaseModelKind(m), LAMBDA kind :
        IF pr.status # "return"
        THEN Outcome(pr.status, <<>>, pr.rng, pr.draws, [base |-> "none"])
        ELSE IF kind \notin BaseKinds
        THEN Outcome(kind, <<>>, pr.rng, pr.draws, [price |-> pr.value, base |-> kind])
        ELSE Outcome("return", BaseImpvol(kind, m, pr.value, strike, spot, texp),
                     pr.rng, pr.draws, [price |-> pr.value, base |-> kind])))

----------------------------------------------------------------------------
(* Construction *)

\* the class attribute beta of each pricer class
ClassBeta(cls) == IF cls \in NormalClasses THEN I(0) ELSE I(1)

\* ModelABC.__init__(self, sigma, vov=0, rho=0.0, beta=1.0, intr=0.0); a holds the
\* arguments of the call, a.beta_passed telling whether beta is among them
InitSelf(a) ==
    [cls |-> a.cls,
     sigma |-> a.sigma,
     vov |-> a.vov,
     rho |-> a.rho,
     beta |-> IF a.beta_passed THEN a.beta ELSE I(1),
     intr |-> a.intr,
     np_params |-> a.np_params,
     dt |-> a.dt,
     n_path |-> a.n_path]

----------------------------------------------------------------------------
(* Inputs *)

\* the model parameters of the constructor calls exercised.  np_params tells
\* whether sigma, vov and rho are passed as NumPy float64 scalars (TRUE) or as
\* Python numbers (FALSE); beta_passed whether beta is passed at all
Params(sigma, vov, np_params, rho, beta_passed, beta, intr) ==
    [sigma |-> sigma, vov |-> vov, np_params |-> np_params, rho |-> rho,
     beta_passed |-> beta_passed, beta |-> beta, intr |-> intr]

ParamSet ==
    { Params(Q(1, 2), I(0), FALSE, I(0),    FALSE, I(1),    I(0)),
      Params(Q(1, 2), I(1), FALSE, Q(1, 2), FALSE, I(1),    I(1)),
      Params(Q(1, 2), I(1), FALSE, Q(1, 2), TRUE,  I(0),    I(0)),
      Params(I(1),    I(1), FALSE, Q(1, 2), TRUE,  Q(1, 2), I(0)),
      Params(Q(1, 2), I(0), TRUE,  Q(1, 2), FALSE, I(1),    I(0)),
      Params(I(1),    I(0), TRUE,  I(0),    TRUE,  I(0),    I(1)),
      Params(Q(1, 2), I(0), FALSE, Q(1, 2), TRUE,  Q(1, 2), I(1)) }

\* self.dt, set on the instance before the calls
DtSet == {Q(1, 2)}

\* texp, in quarters: negative, zero, and multiples or not of dt
TexpSet == {Q(-2, 4), Q(-1, 4)} \cup {Q(k, 4) : k \in 0..MaxTq}

SpotSet == {I(1)}

StrikeSet == {<<I(1)>>, <<Q(3, 2), Q(1, 2)>>}

CpSet == {1, -1}

CtorArgs ==
    {[cls |-> c, dt |-> d, n_path |-> n] @@ p :
        c \in Classes, d \in DtSet, n \in 1..MaxPath, p \in ParamSet}

----------------------------------------------------------------------------
(* The state machine *)

Init ==
    /\ args \in CtorArgs
    /\ self = InitSelf(args)
    /\ rng = 0
    /\ ret = [op |-> "__init__", status |-> "return"]

\* a call and its outcome r; nothing but the generator is written
Call(op, in, r) ==
    /\ ret' = [op |-> op, in |-> in, status |-> r.status, value |-> r.value,
               draws |-> r.draws, rng0 |-> rng, loc |-> r.loc]
    /\ rng' = r.rng
    /\ UNCHANGED <<self, args>>

Price(strike, spot, texp, cp) ==
    Call("price", [strike |-> strike, spot |-> spot, texp |-> texp, cp |-> cp],
         PriceFn(self, rng, strike, spot, texp, cp))

VolSmile(strike, spot, texp) ==
    Call("vol_smile", [strike |-> strike, spot |-> spot, texp |-> texp, cp |-> 1],
         VolSmileFn(self, rng, strike, spot, texp))

SigmaPath(texp) ==
    Call("sigma_path", [texp |-> texp], SigmaPathFn(self, rng, texp))

IntvarOutcome(r, x) ==
    Outcome(r.status, r.value, x, 0, [weight |-> r.loc.weight, arg |-> r.arg])

IntvarNormalized(p) ==
    Call("intvar_normalized", [sigma_path |-> p],
         IntvarOutcome(IntvarNormalizedFn(p), rng))

BaseModelOutcome(kind, x) ==
    Outcome(IF kind \in BaseKinds THEN "return" ELSE kind, <<>>, x, 0, [base |-> kind])

BaseModel ==
    Call("base_model", [sigma |-> self.sigma], BaseModelOutcome(BaseModelKind(self), rng))

Next ==
    \/ \E strike \in StrikeSet, spot \in SpotSet, texp \in TexpSet, cp \in CpSet :
          Price(strike, spot, texp, cp)
    \/ \E spot \in SpotSet, texp \in TexpSet :
          VolSmile(<<I(1)>>, spot, texp)
    \/ \E texp \in TexpSet : SigmaPath(texp)
    \/ \* the caller hands over the path it has just got from sigma_path
       /\ ret.op = "sigma_path"
       /\ ret.status = "return"
       /\ IntvarNormalized(ret.value)
    \/ BaseModel

Spec == Init /\ [][Next]_vars

----------------------------------------------------------------------------
(* intvar_normalized on its own: any path array, in the first call *)

VolValues == {I(0), Q(1, 2), I(2)}

RECURSIVE Arrays(_, _)
\* the arrays of the given length over the set S
Arrays(S, len) ==
    IF len = 0 THEN {<<>>}
    ELSE {Append(a, v) : a \in Arrays(S, len - 1), v \in S}

PathInputs ==
    UNION {Arrays(Arrays(VolValues, N), rows) : N \in {1, 2}, rows \in 1..MaxRows}

InitAgg == Init /\ args.cls = "ModelBsmMC" /\ args.n_path = 1

NextAgg == ret.op = "__init__" /\ \E p \in PathInputs : IntvarNormalized(p)

SpecAgg == InitAgg /\ [][NextAgg]_vars

----------------------------------------------------------------------------
(* Properties *)

Normal == self.cls \in NormalClasses

Direct == self.cls \notin CondClasses

\* the last call was price() and returned
Priced == ret.op = "price" /\ ret.status = "return"

\* C1: with 0 < beta < 1, price() of every pricer ends in the unsupported-parameter
\* error of base_model before any variate is drawn and returns no price.
C1_InvalidBetaFailsFirst ==
    (ret.op = "price" /\ RLt(I(0), self.beta) /\ RLt(self.beta, I(1)))
        => /\ ret.status = "ValueError: 0<beta<1 not supported"
           /\ ret.draws = 0
           /\ rng = ret.rng0

\* C2: with texp <= 0, sigma_path and price() of every pricer end in an error.
C2_NonPositiveTexpFails ==
    (ret.op \in {"price", "sigma_path"} /\ RLe(ret.in.texp, I(0)))
        => ret.status # "return"

\* C3: with vov = 0, price() of either conditional pricer ends in an error and
\* returns nothing, whatever rho is.
C3_ZeroVovCondFails ==
    (ret.op = "price" /\ ~Direct /\ self.vov = I(0)) => ret.status # "return"

\* C4: for texp > 0, sigma_path returns n_dt + 1 rows of n_path columns with
\* n_dt = ceil(texp / dt); row 0 is 1; the grid has n_dt points k * texp / n_dt,
\* the last one texp; the increments are scaled by sqrt(texp / n_dt).
C4_SigmaPathGrid ==
    (ret.op = "sigma_path" /\ RLt(I(0), ret.in.texp)) =>
        /\ ret.status = "return"
        /\ LET T == ret.in.texp
               n == ret.loc.n_dt
               N == self.n_path
               step == RDiv(T, I(n))
               Z_t == <<[i \in 1..N |-> I(0)]>> \o ret.loc.Z_t
           IN  /\ n >= 1
               /\ RLt(RMul(I(n - 1), self.dt), T)
               /\ RLe(T, RMul(I(n), self.dt))
               /\ Len(ret.value) = n + 1
               /\ \A t \in 1..(n + 1) : Len(ret.value[t]) = N
               /\ \A i \in 1..N : ret.value[1][i] = I(1)
               /\ Len(ret.loc.tobs) = n
               /\ \A k \in 1..n : ret.loc.tobs[k] = RMul(I(k), step)
               /\ ret.loc.tobs[n] = T
               /\ \A t \in 1..n, i \in 1..N :
                     RSub(Z_t[t + 1][i], Z_t[t][i]) = RMul(ret.loc.Z[t][i], Sqrt(step))

\* sigma_path has returned a path of two steps for a texp that is no multiple of
\* dt, from variates that are not all zero
C4_Witness ==
    /\ ret.op = "sigma_path"
    /\ ret.status = "return"
    /\ ret.loc.n_dt = 2
    /\ RMul(I(2), self.dt) # ret.in.texp
    /\ self.n_path = 2
    /\ \E t \in 1..2, i \in 1..2 : ret.loc.Z[t][i] # I(0)

\* C5: on a path of n_steps + 1 >= 2 rows, intvar_normalized returns per
\* trajectory (v[0]^2 / 2 + the interior v[t]^2 + v[n_steps]^2 / 2) / n_steps; the
\* weights are 1/2 at both ends and 1 inside, each divided by n_steps, and add up
\* to 1; the result is >= 0; for n_steps = 1 the weights are 1/2 and 1/2.
C5_TrapezoidWeights ==
    (ret.op = "intvar_normalized" /\ Len(ret.in.sigma_path) >= 2) =>
        LET p == ret.in.sigma_path
            n == Len(p) - 1
            w == ret.loc.weight
            Sq(t, i) == RMul(p[t][i], p[t][i])
        IN  /\ ret.status = "return"
            /\ Len(ret.value) = Len(p[1])
            /\ Len(w) = n + 1
            /\ w[1] = Q(1, 2 * n)
            /\ w[n + 1] = Q(1, 2 * n)
            /\ \A t \in 2..n : w[t] = Q(1, n)
            /\ Sum(w) = I(1)
            /\ n = 1 => w = <<Q(1, 2), Q(1, 2)>>
            /\ \A i \in 1..Len(p[1]) :
                 /\ RMul(I(2 * n), ret.value[i]) =
                        RAdd(RAdd(Sq(1, i), Sq(n + 1, i)),
                             RMul(I(2), Sum(SeqOf(LAMBDA t : Sq(t + 1, i), n - 1))))
                 /\ RLe(I(0), ret.value[i])

\* intvar_normalized has returned for a path of three rows whose interior value
\* differs from both ends
C5_Witness ==
    /\ ret.op = "intvar_normalized"
    /\ ret.status = "return"
    /\ Len(ret.in.sigma_path) = 3
    /\ ret.in.sigma_path[2][1] # ret.in.sigma_path[1][1]
    /\ ret.in.sigma_path[2][1] # ret.in.sigma_path[3][1]
    /\ RLt(I(0), ret.value[1])

\* C6: the equivalent spot of ModelNormalCondMC is
\* spot + (rho / vov) * (sigma * path[T] - sigma) for every trajectory.
C6_NormalEquivalentSpot ==
    (Priced /\ self.cls = "ModelNormalCondMC" /\ self.vov # I(0)) =>
        \A i \in 1..self.n_path :
            ret.loc.spot_equiv[i] =
                RAdd(ret.in.spot,
                     RMul(RDiv(self.rho, self.vov),
                          RSub(RMul(self.sigma,
                                    ret.loc.vol_path[Len(ret.loc.vol_path)][i]),
                               self.sigma)))

\* C7: for texp > 0 the path a direct pricer builds inline is sigma times the path
\* sigma_path builds from the same variates Z.
C7_InlinePathIsSigmaPath ==
    (Priced /\ Direct /\ RLt(I(0), ret.in.texp)) =>
        LET T == ret.in.texp
            n == NDt(self, T)
            N == self.n_path
            Z_t == ScaledCumSum(ret.loc.Z, StepOf(self, T, n), N)
        IN  ret.loc.sigma_t =
                ScaleBy(self.sigma,
                        InsertOnes(ExpLogSigma(self.vov, Z_t, Tobs(n, T), N), N), N)

\* C8: a direct pricer returns, for texp > 0, one price per strike in the order
\* of the strikes; entry k is exp(-intr * texp) times the mean over the n_path
\* terminal spots S_T of max(cp * (S_T - strike[k]), 0), the same S_T for every
\* strike; so every entry is >= 0 and, for cp = 1, a higher strike has no higher
\* price.
C8_DiscountedMeanPayoff ==
    (ret.op = "price" /\ Direct) =>
        /\ RLt(I(0), ret.in.texp) => ret.status = "return"
        /\ ret.status = "return" =>
            LET K == ret.in.strike
                cp == ret.in.cp
                N == self.n_path
                S == ret.loc.S_T
                df == Exp(RNeg(RMul(self.intr, ret.in.texp)))
                Gain(i, k) == IF cp = 1 THEN RSub(S[i], K[k]) ELSE RSub(K[k], S[i])
                Pay(i, k) == IF RLt(I(0), Gain(i, k)) THEN Gain(i, k) ELSE I(0)
            IN  /\ Len(ret.value) = Len(K)
                /\ Len(S) = N
                /\ ret.draws = 2 * ret.loc.n_dt * N
                /\ \A k \in 1..Len(K) :
                     /\ RMul(I(N), ret.value[k]) =
                            RMul(df, Sum(SeqOf(LAMBDA i : Pay(i, k), N)))
                     /\ RLe(I(0), ret.value[k])
                /\ cp = 1 =>
                     \A j, k \in 1..Len(K) :
                         RLe(K[j], K[k]) => RLe(ret.value[k], ret.value[j])

\* a direct pricer has priced two strikes at a positive rate over two steps and
\* two trajectories, one strike in the money and one out of it on some
\* trajectory
C8_Witness ==
    /\ Priced
    /\ Direct
    /\ Len(ret.in.strike) = 2
    /\ self.n_path = 2
    /\ ret.loc.n_dt = 2
    /\ self.intr # I(0)
    /\ RLt(I(0), ret.value[2])
    /\ \E i \in 1..2 : RLt(ret.loc.S_T[i], ret.in.strike[1])
    /\ ret.loc.S_T[1] # ret.loc.S_T[2]

\* C9 (as stated): no call changes the instance, the array handed to
\* intvar_normalized, or any other state a later call reads.
C9_NoSharedState ==
    [][/\ self' = self
       /\ rng' = rng
       /\ ret'.op = "intvar_normalized" => ret'.loc.arg = ret'.in.sigma_path]_vars

\* C9 (amended): no call changes the instance or the array handed to
\* intvar_normalized; the one state a call writes and a later call reads is the
\* process-wide generator, which a call advances by the variates it draws, so not
\* at all in intvar_normalized and base_model.
C9_OnlyGeneratorAdvances ==
    [][/\ self' = self
       /\ ret'.op = "intvar_normalized" => ret'.loc.arg = ret'.in.sigma_path
       /\ rng' = RngSkip(rng, ret'.draws)
       /\ ret'.op \in {"intvar_normalized", "base_model"} => ret'.draws = 0]_vars

\* intvar_normalized has returned, after calls that moved the generator, for a
\* path with a value that differs from its square
C9_Witness ==
    /\ ret.op = "intvar_normalized"
    /\ ret.status = "return"
    /\ rng # 0
    /\ \E t \in 1..Len(ret.in.sigma_path), i \in 1..self.n_path :
          RMul(ret.in.sigma_path[t][i], ret.in.sigma_path[t][i]) # ret.in.sigma_path[t][i]

\* C10: constructed without beta, a normal pricer has beta = 0 and base_model()
\* gives it pf.Norm, a log-normal pricer has beta = 1 and gets pf.Bsm.
C10_DefaultBetaFollowsClass ==
    ~args.beta_passed =>
        /\ self.beta = (IF Normal THEN I(0) ELSE I(1))
        /\ (ret.op \in {"base_model", "vol_smile", "price"} /\ ret.status = "return"
              /\ (ret.op = "price" => ~Direct))
             => ret.loc.base = (IF Normal THEN "Norm" ELSE "Bsm")

====
